---- MODULE Spec2Model ----
(***************************************************************************)
(* A model of same_rename.py: the directory scan of rename_images, the     *)
(* three concurrent align_image_stack tasks of                             *)
(* get_overlap_ratios_parallel, the parser of the .pto artifact, the       *)
(* float64 statistics, the threshold test and the rename loop.             *)
(***************************************************************************)
EXTENDS Integers, Sequences, FiniteSets, TLC

(***************************************************************************)
(* float64 arithmetic.  The overlap scores are Python floats and the       *)
(* statistics are numpy float64 values, so a score is modelled as an IEEE  *)
(* 754 binary64 number: a 53-bit significand m (most significant bit       *)
(* first, m[1] = 1) and the exponent e of its last bit; the value is       *)
(* m * 2^e.  Zero has the empty significand.  Every operation rounds to    *)
(* nearest, ties to even, as the hardware does.  All values of the model   *)
(* are non-negative and far from the overflow and subnormal ranges.        *)
(***************************************************************************)
Precision == 53

FZero == [m |-> <<>>, e |-> 0]

\* a sequence given as a function, as a tuple
Tuple(f) == f \o <<>>

Zeros(n) == [i \in 1..n |-> 0]

\* a bit string without its leading zeros
Strip(b) ==
    IF \A i \in 1..Len(b) : b[i] = 0 THEN <<>>
    ELSE LET k == CHOOSE i \in 1..Len(b) :
                     b[i] = 1 /\ \A j \in 1..(i - 1) : b[j] = 0
         IN  SubSeq(b, k, Len(b))

\* Long bit strings are added and divided ten bits at a time.
\* the bits widened with leading zeros to n chunks of ten
Widen(bits, n) == Zeros(10 * n - Len(bits)) \o bits

\* the value of chunk c (1 is the leftmost) of a widened bit string
Chunk(w, c) ==
    LET o == 10 * (c - 1)
    IN  512 * w[o + 1] + 256 * w[o + 2] + 128 * w[o + 3] + 64 * w[o + 4]
        + 32 * w[o + 5] + 16 * w[o + 6] + 8 * w[o + 7] + 4 * w[o + 8]
        + 2 * w[o + 9] + w[o + 10]

\* bit k of the string whose chunk values are given by val
BitOfChunks(val, k) == (val[((k - 1) \div 10) + 1] \div 2^(9 - ((k - 1) % 10))) % 2

\* sum of two big-endian bit strings
AddBits(a, b) ==
    LET n == ((IF Len(a) >= Len(b) THEN Len(a) ELSE Len(b)) \div 10) + 1
        x == Widen(a, n)
        y == Widen(b, n)
        \* the sum of the chunks c..n, as a carry and a chunk value
        sum[c \in 1..(n + 1)] ==
            IF c = n + 1 THEN 0
            ELSE Chunk(x, c) + Chunk(y, c) + (sum[c + 1] \div 1024)
        val == Tuple([c \in 1..n |-> sum[c] % 1024])
    IN  Strip(Tuple([k \in 1..(10 * n) |-> BitOfChunks(val, k)]))

\* the binary digits of a natural number, most significant first
BitsOf(n) ==
    IF n = 0 THEN <<>>
    ELSE LET L == CHOOSE l \in 1..30 : 2^(l - 1) <= n /\ n < 2^l
         IN  [k \in 1..L |-> (n \div 2^(L - k)) % 2]

\* round the exact value bits * 2^e (+ a non-zero tail below the last bit
\* when sticky) to 53 significant bits, ties to even
Round53(bits, e, sticky) ==
    LET b == Strip(bits)
        L == Len(b)
    IN  IF L = 0 THEN FZero
        ELSE IF L <= Precision
             THEN [m |-> b \o Zeros(Precision - L), e |-> e - (Precision - L)]
        ELSE LET keep == SubSeq(b, 1, Precision)
                 g    == b[Precision + 1]
                 rest == sticky \/ \E i \in (Precision + 2)..L : b[i] = 1
                 up   == g = 1 /\ (rest \/ keep[Precision] = 1)
                 r    == IF up THEN AddBits(keep, <<1>>) ELSE keep
             IN  IF Len(r) > Precision
                 THEN [m |-> SubSeq(r, 1, Precision), e |-> e + (L - Precision) + 1]
                 ELSE [m |-> r, e |-> e + (L - Precision)]

FromInt(n) == Round53(BitsOf(n), 0, FALSE)

\* x + y
FAdd(x, y) ==
    IF x.m = <<>> THEN y
    ELSE IF y.m = <<>> THEN x
    ELSE LET lo == IF x.e < y.e THEN x.e ELSE y.e
         IN  Round53(AddBits(x.m \o Zeros(x.e - lo), y.m \o Zeros(y.e - lo)),
                     lo, FALSE)

\* long division of a big-endian bit string by a small natural number:
\* the quotient bits and the remainder
DivBits(bits, n) ==
    LET c == (Len(bits) \div 10) + 1
        w == Widen(bits, c)
        rem[i \in 0..c] ==
            IF i = 0 THEN 0 ELSE (1024 * rem[i - 1] + Chunk(w, i)) % n
        val == Tuple([i \in 1..c |-> (1024 * rem[i - 1] + Chunk(w, i)) \div n])
    IN  [q |-> Tuple([k \in 1..(10 * c) |-> BitOfChunks(val, k)]), r |-> rem[c]]

\* x / n for a positive integer n < 64: the significand is extended by
\* eight bits, so that the quotient has more than 54 significant bits
FDivInt(x, n) ==
    IF x.m = <<>> THEN FZero
    ELSE LET d == DivBits(x.m \o Zeros(8), n)
         IN  Round53(d.q, x.e - 8, d.r # 0)

\* x < y, for non-negative x and y
FLt(x, y) ==
    IF y.m = <<>> THEN FALSE
    ELSE IF x.m = <<>> THEN TRUE
    ELSE IF x.e # y.e THEN x.e < y.e
    ELSE \E i \in 1..Precision :
            /\ x.m[i] < y.m[i]
            /\ \A j \in 1..(i - 1) : x.m[j] = y.m[j]

FGe(x, y) == ~FLt(x, y)

(***************************************************************************)
(* File names.  A name is the sequence of its characters, so that the      *)
(* extension test, the seq_<digits>_ test and the formatting of the new    *)
(* name work on text as the program does.                                  *)
(***************************************************************************)
UpperChars == <<"A","B","C","D","E","F","G","H","I","J","K","L","M",
                "N","O","P","Q","R","S","T","U","V","W","X","Y","Z">>
LowerChars == <<"a","b","c","d","e","f","g","h","i","j","k","l","m",
                "n","o","p","q","r","s","t","u","v","w","x","y","z">>
DigitChars == <<"0","1","2","3","4","5","6","7","8","9">>

IsDigit(c) == \E i \in 1..10 : DigitChars[i] = c

\* str.lower()
lower(name) ==
    [k \in 1..Len(name) |->
        IF \E i \in 1..26 : UpperChars[i] = name[k]
        THEN LowerChars[CHOOSE i \in 1..26 : UpperChars[i] = name[k]]
        ELSE name[k]]

\* str.endswith() and the prefix test of re.match
EndsWith(name, suffix) ==
    /\ Len(name) >= Len(suffix)
    /\ SubSeq(name, Len(name) - Len(suffix) + 1, Len(name)) = suffix

StartsWith(name, prefix) ==
    /\ Len(name) >= Len(prefix)
    /\ SubSeq(name, 1, Len(prefix)) = prefix

OVERLAP_THRESHOLD == FDivInt(FromInt(9), 10)

IMAGE_EXTENSIONS == { <<".","j","p","g">>, <<".","j","p","e","g">>,
                      <<".","p","n","g">>, <<".","t","i","f","f">>,
                      <<".","t","i","f">> }

SEQUENCE_PREFIX == <<"s","e","q","_">>

ALIGN_PARAMS == <<"--corr=0.8", "--corr=0.9", "--corr=0.7">>

is_image_file(filename) ==
    \E ext \in IMAGE_EXTENSIONS : EndsWith(lower(filename), ext)

\* the length of the run of digits of name that starts at position i
RECURSIVE DigitRun(_, _)
DigitRun(name, i) ==
    IF i <= Len(name) /\ IsDigit(name[i]) THEN 1 + DigitRun(name, i + 1) ELSE 0

\* a pattern out of step with the three digits of the new names:
\* "seq_[0-9]{4,}_"
is_already_renamed_four_digits(filename) ==
    /\ StartsWith(filename, SEQUENCE_PREFIX)
    /\ LET p == Len(SEQUENCE_PREFIX) + 1
           n == DigitRun(filename, p)
       IN  /\ n >= 4
           /\ p + n <= Len(filename)
           /\ filename[p + n] = "_"

\* re.match("seq_[0-9]+_", filename): the prefix, one or more digits, then
\* an underscore, anchored at the start of the name
is_already_renamed(filename) ==
    /\ StartsWith(filename, SEQUENCE_PREFIX)
    /\ LET p == Len(SEQUENCE_PREFIX) + 1
           n == DigitRun(filename, p)
       IN  /\ n >= 1
           /\ p + n <= Len(filename)
           /\ filename[p + n] = "_"

\* the decimal digits of a natural number
RECURSIVE Decimal(_)
Decimal(n) ==
    IF n < 10 THEN <<DigitChars[n + 1]>>
    ELSE Append(Decimal(n \div 10), DigitChars[(n % 10) + 1])

\* f"{counter:03d}"
Format03d(n) ==
    LET d == Decimal(n)
    IN  IF Len(d) >= 3 THEN d ELSE [i \in 1..(3 - Len(d)) |-> "0"] \o d

\* f"{SEQUENCE_PREFIX}{counter:03d}_{img}"
NewName(cnt, img) == SEQUENCE_PREFIX \o Format03d(cnt) \o <<"_">> \o img

(***************************************************************************)
(* Bounds of the model.                                                    *)
(***************************************************************************)
MaxFiles   == 3     \* files in the directory at the start
MaxTime    == 2     \* range of the creation times
MaxRuns    == 2     \* successive runs of the program
MaxRecords == 4     \* control-point records in an artifact

(***************************************************************************)
(* The .pto artifact and its parser.  A text is a sequence of lines; a     *)
(* line either matches the control-point pattern, and then carries the     *)
(* type tag the pattern captures, or does not match.                       *)
(***************************************************************************)
Record(t) == [cp |-> TRUE, t |-> t]
OtherLine == [cp |-> FALSE, t |-> 0]

\* a text with n control-point records over d distinct tags, after a line
\* that is not a control point
ArtOf(n, d) == <<OtherLine>> \o [i \in 1..n |-> Record(((i - 1) % d) + 1)]

\* the artifacts of the model: no record at all, or MaxRecords records that
\* all have one tag, that all have different tags, or of which two share one
Artifacts ==
    {ArtOf(0, 1)} \cup
    { ArtOf(MaxRecords, d) : d \in {1, MaxRecords - 1, MaxRecords} }

\* tempfile.NamedTemporaryFile(delete=False): an empty, readable file
NewTempFile == [exists |-> TRUE, readable |-> TRUE, text |-> <<>>]
NoFile      == [exists |-> FALSE, readable |-> FALSE, text |-> <<>>]

\* a pattern that matches every line of the text
findall_every_line(text) == [k \in 1..Len(text) |-> text[k].t]

\* control_point_pattern.findall(data): the captured tags, in order
RECURSIVE findall(_)
findall(text) ==
    IF text = <<>> THEN <<>>
    ELSE IF Head(text).cp THEN <<Head(text).t>> \o findall(Tail(text))
    ELSE findall(Tail(text))

Max(a, b) == IF a >= b THEN a ELSE b

\* the float64 quotient n / d of every two counts an artifact of the model
\* can have
Quotients ==
    [n \in 1..MaxRecords |-> [d \in 1..MaxRecords |-> FDivInt(FromInt(n), d)]]

\* the quotient the other way round: distinct tags / control_point_count
overlap_density_inverted(control_points) ==
    Quotients[Max(1, Cardinality({control_points[i] :
                                     i \in 1..Len(control_points)}))]
             [Len(control_points)]

\* control_point_count / max(1, len(set(control_points)))
overlap_density(control_points) ==
    Quotients[Len(control_points)]
             [Max(1, Cardinality({control_points[i] :
                                     i \in 1..Len(control_points)}))]

parse_pto_file(file) ==
    IF ~file.exists THEN <<>>            \* FileNotFoundError
    ELSE IF ~file.readable THEN <<>>     \* any other exception
    ELSE LET control_points == findall(file.text)
         IN  IF Len(control_points) > 0
             THEN <<overlap_density(control_points)>>
             ELSE <<>>

(***************************************************************************)
(* numpy statistics of a non-empty sequence of float64 scores.             *)
(***************************************************************************)
None == [none |-> TRUE]

\* np.add.reduce of fewer than 8 values: a left-to-right sum from 0.0
RECURSIVE SumFrom(_, _)
SumFrom(acc, scores) ==
    IF scores = <<>> THEN acc
    ELSE SumFrom(FAdd(acc, Head(scores)), Tail(scores))

\* a mean that divides the sum by one more than the number of scores
np_mean_one_more(scores) == FDivInt(SumFrom(FZero, scores), Len(scores) + 1)

np_mean(scores) == FDivInt(SumFrom(FZero, scores), Len(scores))

\* x placed after the elements of the sorted sequence that are <= x
RECURSIVE InsertFloat(_, _)
InsertFloat(sorted, x) ==
    IF sorted = <<>> THEN <<x>>
    ELSE IF FLt(x, Head(sorted)) THEN <<x>> \o sorted
    ELSE <<Head(sorted)>> \o InsertFloat(Tail(sorted), x)

RECURSIVE SortFloats(_)
SortFloats(scores) ==
    IF scores = <<>> THEN <<>>
    ELSE InsertFloat(SortFloats(SubSeq(scores, 1, Len(scores) - 1)),
                     scores[Len(scores)])

\* np.median: the mean of the middle element, or of the two middle elements
np_median(scores) ==
    LET srt == SortFloats(scores)
        n   == Len(srt)
        h   == n \div 2
    IN  IF n % 2 = 1 THEN np_mean(<<srt[h + 1]>>)
        ELSE np_mean(<<srt[h], srt[h + 1]>>)

\* [score for sublist in overlap_results for score in sublist]
RECURSIVE Flatten(_)
Flatten(results) ==
    IF results = <<>> THEN <<>>
    ELSE Head(results) \o Flatten(Tail(results))

\* lines 93-102: the statistics of the collected results.  The standard
\* deviation of line 97 is printed and returned with them; rename_images
\* binds it at line 114 and never reads it, and it is not part of the state.
Statistics(results) ==
    LET all_overlap_scores == Flatten(results)
    IN  IF all_overlap_scores # <<>>
        THEN [mean |-> np_mean(all_overlap_scores),
              median |-> np_median(all_overlap_scores)]
        ELSE [mean |-> None, median |-> None]

(***************************************************************************)
(* The state: the directory, the position of rename_images, its locals,    *)
(* the temporary files and worker tasks of get_overlap_ratios_parallel.    *)
(***************************************************************************)
VARIABLES
    dir,                  \* the directory: file name -> [id, ctime, mtime, atime]
    pc,                   \* position of the main thread
    runs,                 \* runs of the program started so far
    images,               \* candidates, sorted by creation time
    tmp,                  \* temp_paths: task -> state of its temporary file
    task,                 \* futures: task -> [st, cmd, result, parsed]
    handled,              \* futures as_completed has yielded and finished with
    overlap_results,      \* results appended so far, in completion order
    removals,             \* task -> os.remove calls on its temporary file
    remove_errors,        \* tasks whose os.remove raised an OSError
    mean_overlap,
    median_overlap,
    high_overlap_images,
    counter,              \* counter, also the loop's position in the list
    exc,                  \* exception that left rename_images, or "none"
    moves,                \* the moves this run has made
    dir0,                 \* the directory when this run started
    renamed               \* the files every run so far has renamed

vars == <<dir, pc, runs, images, tmp, task, handled, overlap_results,
          removals, remove_errors, mean_overlap, median_overlap,
          high_overlap_images, counter, exc, moves, dir0, renamed>>

Tasks == 1..Len(ALIGN_PARAMS)

\* names of the files a directory starts with
InitNames == { <<"a",".","j","p","g">>,
               <<"b",".","P","N","G">>,
               <<"s","e","q","_","x",".","t","i","f">>,
               <<"s","e","q","_","0","0","1","_","a",".","j","p","g">>,
               <<"n",".","t","x","t">> }

\* a file created and last written at time c, and read after that
FileTimes == { [ctime |-> c, mtime |-> c, atime |-> c + 1] : c \in 1..MaxTime }

\* the directories a run can start with: up to MaxFiles files, each with
\* its own identity (the name it was created under)
InitDirs ==
    UNION { { [n \in S |-> [id |-> n, ctime |-> t[n].ctime,
                            mtime |-> t[n].mtime, atime |-> t[n].atime]] :
                 t \in [S -> FileTimes] } :
            S \in { X \in SUBSET InitNames : Cardinality(X) <= MaxFiles } }

NoTask == [st |-> "idle", cmd |-> "none", result |-> <<>>, parsed |-> FALSE]

Init ==
    /\ dir \in InitDirs
    /\ pc = "idle"
    /\ runs = 0
    /\ images = <<>>
    /\ tmp = [i \in Tasks |-> NoFile]
    /\ task = [i \in Tasks |-> NoTask]
    /\ handled = {}
    /\ overlap_results = <<>>
    /\ removals = [i \in Tasks |-> 0]
    /\ remove_errors = {}
    /\ mean_overlap = None
    /\ median_overlap = None
    /\ high_overlap_images = <<>>
    /\ counter = 0
    /\ exc = "none"
    /\ moves = <<>>
    /\ dir0 = dir
    /\ renamed = {}

(***************************************************************************)
(* rename_images, lines 106-111: the scan of the directory.                *)
(***************************************************************************)
\* the orders in which os.listdir can return the names of a set
Listings(S) ==
    { l \in [1..Cardinality(S) -> S] : \A i, j \in 1..Cardinality(S) :
                                          i # j => l[i] # l[j] }

\* name placed after the names of the sorted list created no later: the
\* step of a stable sort
RECURSIVE InsertByCtime(_, _, _)
InsertByCtime(sorted, name, d) ==
    IF sorted = <<>> THEN <<name>>
    ELSE IF d[name].ctime < d[Head(sorted)].ctime THEN <<name>> \o sorted
    ELSE <<Head(sorted)>> \o InsertByCtime(Tail(sorted), name, d)

\* images.sort(key=os.path.getctime)
RECURSIVE SortByCtime(_, _)
SortByCtime(list, d) ==
    IF list = <<>> THEN <<>>
    ELSE InsertByCtime(SortByCtime(SubSeq(list, 1, Len(list) - 1), d),
                       list[Len(list)], d)

IsCandidate(name) == is_image_file(name) /\ ~is_already_renamed(name)

\* line 106 and 107 on one listing of the directory
Candidates(listing, d) == SortByCtime(SelectSeq(listing, IsCandidate), d)

\* an off-by-one test: len(images) < 1
NotEnough_one(list) == Len(list) < 1

\* line 109
NotEnough(list) == Len(list) < 2

\* a new run of the program: a fresh process scans the directory
Scan ==
    /\ pc \in {"idle", "done", "crashed"}
    /\ runs < MaxRuns
    /\ runs' = runs + 1
    /\ \E listing \in Listings(DOMAIN dir) : images' = Candidates(listing, dir)
    /\ pc' = IF NotEnough(images') THEN "done" ELSE "dispatch"
    /\ tmp' = [i \in Tasks |-> NoFile]
    /\ task' = [i \in Tasks |-> NoTask]
    /\ handled' = {}
    /\ overlap_results' = <<>>
    /\ removals' = [i \in Tasks |-> 0]
    /\ remove_errors' = {}
    /\ mean_overlap' = None
    /\ median_overlap' = None
    /\ high_overlap_images' = <<>>
    /\ counter' = 0
    /\ exc' = "none"
    /\ moves' = <<>>
    /\ dir0' = dir
    /\ UNCHANGED <<dir, renamed>>

(***************************************************************************)
(* get_overlap_ratios_parallel, lines 68-90.                               *)
(***************************************************************************)
\* lines 68-76: the temporary files are created and the tasks submitted;
\* the pool has a worker for each, so each starts at once
Dispatch ==
    /\ pc = "dispatch"
    /\ overlap_results' = <<>>
    /\ tmp' = [i \in Tasks |-> NewTempFile]
    /\ task' = [i \in Tasks |-> [NoTask EXCEPT !.st = "running"]]
    /\ pc' = "collect"
    /\ UNCHANGED <<dir, runs, images, handled, removals, remove_errors,
                   mean_overlap, median_overlap, high_overlap_images, counter,
                   exc, moves, dir0, renamed>>

Readable(text) == [exists |-> TRUE, readable |-> TRUE, text |-> text]
Unreadable     == [exists |-> TRUE, readable |-> FALSE, text |-> <<>>]

\* what one run of align_image_stack can do: exit 0 having written an
\* artifact, or having left the file unreadable or missing;
\* exit non-zero after writing nothing or something; or fail to launch
AllOutcomes ==
    { [cmd |-> "ok", file |-> f] :
         f \in { Readable(a) : a \in Artifacts } \cup {Unreadable, NoFile} }
    \cup { [cmd |-> "nonzero", file |-> f] :
              f \in {NewTempFile, Readable(ArtOf(1, 1))} }
    \cup { [cmd |-> "launch", file |-> NewTempFile] }

\* the outcome of a tool that works: four records with four tags
NominalOutcomes ==
    { [cmd |-> "ok", file |-> Readable(ArtOf(MaxRecords, MaxRecords))] }

\* a handler that parses what the failed command has left
ResultOnFailure_parsed(file) == parse_pto_file(file)

\* lines 35-40: what the task returns when subprocess.run raised
ResultOnFailure(file) == <<>>

\* a task that starts its command again after a failure
run_align_image_stack_retrying(i, outcomes) ==
    /\ task[i].st = "running"
    /\ \E o \in outcomes :
          /\ tmp' = [tmp EXCEPT ![i] = o.file]
          /\ task' = [task EXCEPT ![i] =
                         [st |-> IF o.cmd = "ok" THEN "done" ELSE "running",
                          cmd |-> o.cmd,
                          result |-> IF o.cmd = "ok"
                                     THEN parse_pto_file(o.file)
                                     ELSE ResultOnFailure(o.file),
                          parsed |-> o.cmd = "ok"]]
    /\ UNCHANGED <<dir, pc, runs, images, handled, overlap_results,
                   removals, remove_errors, mean_overlap, median_overlap,
                   high_overlap_images, counter, exc, moves, dir0, renamed>>

\* run_align_image_stack, lines 29-40, in a worker of the pool: the command
\* runs, and its artifact is parsed if it exited with 0
run_align_image_stack(i, outcomes) ==
    /\ task[i].st = "running"
    /\ \E o \in outcomes :
          /\ tmp' = [tmp EXCEPT ![i] = o.file]
          /\ task' = [task EXCEPT ![i] =
                         [st |-> "done", cmd |-> o.cmd,
                          result |-> IF o.cmd = "ok"
                                     THEN parse_pto_file(o.file)
                                     ELSE ResultOnFailure(o.file),
                          parsed |-> o.cmd = "ok"]]
    /\ UNCHANGED <<dir, pc, runs, images, handled, overlap_results,
                   removals, remove_errors, mean_overlap, median_overlap,
                   high_overlap_images, counter, exc, moves, dir0, renamed>>

\* the removal placed under "if result:" instead of in the finally block
CleanupReached_with_result(t) == t.result # <<>>

\* the finally block of the loop body reaches os.remove for the task
CleanupReached(t) == TRUE

\* a turn of the loop whose write of the collection is not an append: the
\* list is replaced by one that holds the new result alone
as_completed_overwriting(i, remove_outcomes) ==
    /\ pc = "collect"
    /\ task[i].st = "done"
    /\ i \notin handled
    /\ overlap_results' = IF task[i].result # <<>>
                          THEN <<task[i].result>>
                          ELSE overlap_results
    /\ IF CleanupReached(task[i])
       THEN /\ removals' = [removals EXCEPT ![i] = @ + 1]
            /\ \E removed \in remove_outcomes :
                  IF removed /\ tmp[i].exists
                  THEN /\ tmp' = [tmp EXCEPT ![i] = NoFile]
                       /\ UNCHANGED remove_errors
                  ELSE /\ remove_errors' = remove_errors \cup {i}
                       /\ UNCHANGED tmp
       ELSE UNCHANGED <<removals, remove_errors, tmp>>
    /\ handled' = handled \cup {i}
    /\ pc' = IF handled' = Tasks THEN "aggregate" ELSE "collect"
    /\ UNCHANGED <<dir, runs, images, task, mean_overlap, median_overlap,
                   high_overlap_images, counter, exc, moves, dir0, renamed>>

\* lines 77-90, one turn of the loop: as_completed yields a completed
\* future, its result is appended when it is not empty, and
\* os.remove(temp_path) removes the file or raises an OSError that is
\* printed and dropped
as_completed(i, remove_outcomes) ==
    /\ pc = "collect"
    /\ task[i].st = "done"
    /\ i \notin handled
    /\ overlap_results' = IF task[i].result # <<>>
                          THEN Append(overlap_results, task[i].result)
                          ELSE overlap_results
    /\ IF CleanupReached(task[i])
       THEN /\ removals' = [removals EXCEPT ![i] = @ + 1]
            /\ \E removed \in remove_outcomes :
                  IF removed /\ tmp[i].exists
                  THEN /\ tmp' = [tmp EXCEPT ![i] = NoFile]
                       /\ UNCHANGED remove_errors
                  ELSE /\ remove_errors' = remove_errors \cup {i}
                       /\ UNCHANGED tmp
       ELSE UNCHANGED <<removals, remove_errors, tmp>>
    /\ handled' = handled \cup {i}
    /\ pc' = IF handled' = Tasks THEN "aggregate" ELSE "collect"
    /\ UNCHANGED <<dir, runs, images, task, mean_overlap, median_overlap,
                   high_overlap_images, counter, exc, moves, dir0, renamed>>

\* statistics taken as soon as a result is there, without the join
Aggregate_early ==
    /\ pc \in {"collect", "aggregate"}
    /\ overlap_results # <<>>
    /\ LET st == Statistics(overlap_results)
       IN  /\ mean_overlap' = st.mean
           /\ median_overlap' = st.median
    /\ pc' = "decide"
    /\ UNCHANGED <<dir, runs, images, tmp, task, handled,
                   overlap_results, removals, remove_errors,
                   high_overlap_images, counter, exc, moves, dir0, renamed>>

\* lines 93-102, after the pool has shut down
Aggregate ==
    /\ pc = "aggregate"
    /\ LET st == Statistics(overlap_results)
       IN  /\ mean_overlap' = st.mean
           /\ median_overlap' = st.median
    /\ pc' = "decide"
    /\ UNCHANGED <<dir, runs, images, tmp, task, handled,
                   overlap_results, removals, remove_errors,
                   high_overlap_images, counter, exc, moves, dir0, renamed>>

(***************************************************************************)
(* rename_images, lines 116-133.                                           *)
(***************************************************************************)
\* the comparison turned round: mean_overlap <= OVERLAP_THRESHOLD
HighOverlap_reversed(list, mean) ==
    LET Keep(img) == FGe(OVERLAP_THRESHOLD, mean)
    IN  SelectSeq(list, Keep)

\* line 121: [img for img in images if mean_overlap >= OVERLAP_THRESHOLD]
HighOverlap(list, mean) ==
    LET Keep(img) == FGe(mean, OVERLAP_THRESHOLD)
    IN  SelectSeq(list, Keep)

\* lines 116-124
Decide ==
    /\ pc = "decide"
    /\ IF mean_overlap = None \/ median_overlap = None
       THEN /\ pc' = "done"
            /\ UNCHANGED <<high_overlap_images, counter>>
       ELSE /\ high_overlap_images' = HighOverlap(images, mean_overlap)
            /\ counter' = 1
            /\ pc' = "rename"
    /\ UNCHANGED <<dir, runs, images, tmp, task, handled,
                   overlap_results, removals, remove_errors, mean_overlap,
                   median_overlap, exc, moves, dir0, renamed>>

\* a copy in place of the move: the old entry stays
Moved_copying(d, old, new) ==
    [n \in DOMAIN d \cup {new} |-> IF n = new THEN d[old] ELSE d[n]]

\* shutil.move inside one directory: the entry is renamed and replaces an
\* entry that already has the new name; the file keeps its times
Moved(d, old, new) ==
    [n \in (DOMAIN d \ {old}) \cup {new} |-> IF n = new THEN d[old] ELSE d[n]]

\* lines 125-130 and the end of the loop: the next image is moved
RenameLoop ==
    /\ pc = "rename"
    /\ IF counter > Len(high_overlap_images)
       THEN /\ pc' = "done"
            /\ UNCHANGED <<dir, moves, counter, renamed>>
       ELSE LET img      == high_overlap_images[counter]
                new_name == NewName(counter, img)
            IN  IF img # new_name
                THEN /\ dir' = Moved(dir, img, new_name)
                     /\ moves' = Append(moves, [old |-> img, new |-> new_name,
                                                was |-> dir[img]])
                     /\ renamed' = renamed \cup
                                      {[name |-> new_name, id |-> dir[img].id]}
                     /\ pc' = "preserve"
                     /\ UNCHANGED counter
                ELSE /\ counter' = counter + 1
                     /\ UNCHANGED <<dir, moves, pc, renamed>>
    /\ UNCHANGED <<runs, images, tmp, task, handled, overlap_results,
                   removals, remove_errors, mean_overlap, median_overlap,
                   high_overlap_images, exc, dir0>>

\* lines 24-27 and 131-133: os.path.getmtime(old_path) raises
\* FileNotFoundError when the old path is gone, and nothing catches it
preserve_metadata ==
    /\ pc = "preserve"
    /\ LET img      == high_overlap_images[counter]
           new_name == NewName(counter, img)
       IN  IF img \in DOMAIN dir
           THEN /\ dir' = [dir EXCEPT ![new_name].mtime = dir[img].mtime,
                                      ![new_name].atime = dir[img].mtime]
                /\ counter' = counter + 1
                /\ pc' = "rename"
                /\ UNCHANGED exc
           ELSE /\ exc' = "FileNotFoundError"
                /\ pc' = "crashed"
                /\ UNCHANGED <<dir, counter>>
    /\ UNCHANGED <<runs, images, tmp, task, handled, overlap_results,
                   removals, remove_errors, mean_overlap, median_overlap,
                   high_overlap_images, moves, dir0, renamed>>

\* one directory of two images, every behaviour of the alignment tool and
\* of the removal of the temporary files
InitTool ==
    /\ Init
    /\ DOMAIN dir = { <<"a",".","j","p","g">>, <<"b",".","P","N","G">> }
    /\ dir[<<"a",".","j","p","g">>].ctime = 1
    /\ dir[<<"b",".","P","N","G">>].ctime = MaxTime

Next ==
    \/ Scan
    \/ Dispatch
    \/ \E i \in Tasks : run_align_image_stack(i, AllOutcomes)
    \/ \E i \in Tasks : as_completed(i, BOOLEAN)
    \/ Aggregate
    \/ Decide
    \/ RenameLoop
    \/ preserve_metadata

Spec == InitTool /\ [][Next]_vars

\* every directory, an alignment tool that works and temporary files that
\* can be removed
NextDirs ==
    \/ Scan
    \/ Dispatch
    \/ \E i \in Tasks : run_align_image_stack(i, NominalOutcomes)
    \/ \E i \in Tasks : as_completed(i, {TRUE})
    \/ Aggregate
    \/ Decide
    \/ RenameLoop
    \/ preserve_metadata

SpecDirs == Init /\ [][NextDirs]_vars

(***************************************************************************)
(* The parser on its own: the worker of task 1 has run a command that      *)
(* exited with 0, and what it finds at temp_pto_path is any text of up to  *)
(* MaxRecords lines, an unreadable file or no file.                        *)
(***************************************************************************)
\* the lines of an artifact: no control point, or a control point with a tag
Lines == {OtherLine} \cup { Record(t) : t \in 1..MaxRecords }

\* the texts of up to MaxRecords lines
Texts == UNION { [1..n -> Lines] : n \in 0..MaxRecords }

ParserFiles == { Readable(text) : text \in Texts } \cup {Unreadable, NoFile}

\* get_overlap_ratios_parallel has submitted its tasks for the two images
\* of a directory; the command of task 1 leaves f at its temp_pto_path
InitParser ==
    /\ dir \in InitDirs
    /\ DOMAIN dir = { <<"a",".","j","p","g">>, <<"b",".","P","N","G">> }
    /\ dir[<<"a",".","j","p","g">>].ctime = 1
    /\ dir[<<"b",".","P","N","G">>].ctime = MaxTime
    /\ pc = "collect"
    /\ runs = 1
    /\ images = << <<"a",".","j","p","g">>, <<"b",".","P","N","G">> >>
    /\ \E f \in ParserFiles : tmp = [i \in Tasks |-> IF i = 1 THEN f ELSE NewTempFile]
    /\ task = [i \in Tasks |-> [NoTask EXCEPT !.st = "running"]]
    /\ handled = {}
    /\ overlap_results = <<>>
    /\ removals = [i \in Tasks |-> 0]
    /\ remove_errors = {}
    /\ mean_overlap = None
    /\ median_overlap = None
    /\ high_overlap_images = <<>>
    /\ counter = 0
    /\ exc = "none"
    /\ moves = <<>>
    /\ dir0 = dir
    /\ renamed = {}

\* line 34: the command of task i has exited with 0 and the task returns
\* what the parser makes of the file at its temp_pto_path
ParseArtifact(i) ==
    /\ task[i].st = "running"
    /\ task' = [task EXCEPT ![i] = [st |-> "done", cmd |-> "ok",
                                    result |-> parse_pto_file(tmp[i]),
                                    parsed |-> TRUE]]
    /\ UNCHANGED <<dir, pc, runs, images, tmp, handled, overlap_results,
                   removals, remove_errors, mean_overlap, median_overlap,
                   high_overlap_images, counter, exc, moves, dir0, renamed>>

NextParser == \E i \in Tasks : ParseArtifact(i)

SpecParser == InitParser /\ [][NextParser]_vars

(***************************************************************************)
(* Properties.                                                             *)
(***************************************************************************)
\* the run has ended, by a return or by an exception
Ended == runs >= 1 /\ pc \in {"done", "crashed"}

\* the candidates of a directory
CandidatesOf(d) == { n \in DOMAIN d : is_image_file(n) /\ ~is_already_renamed(n) }

\* the statistics exist and the mean reaches the threshold
MeanIsHigh == /\ mean_overlap # None
              /\ FGe(mean_overlap, OVERLAP_THRESHOLD)

\* C1: a run over k >= 2 candidates whose global mean is >= 0.9 ends with
\* every candidate renamed: the i-th in creation-time order is named
\* seq_<i, 3 digits>_<original name> and none is left under its old name.
C1_AllRenamed ==
    (Ended /\ Len(images) >= 2 /\ MeanIsHigh) =>
        \A i \in 1..Len(images) :
            /\ images[i] \notin DOMAIN dir
            /\ NewName(i, images[i]) \in DOMAIN dir
            /\ dir[NewName(i, images[i])].id = dir0[images[i]].id

\* C2: once a file has been moved and its metadata step is over, the
\* modification time and the access time of the new path both equal the
\* modification time the file had under its old path before the move.
C2_TimesPreserved ==
    \A k \in 1..Len(moves) :
        (k < Len(moves) \/ pc # "preserve") =>
            /\ dir[moves[k].new].mtime = moves[k].was.mtime
            /\ dir[moves[k].new].atime = moves[k].was.mtime

\* C3: no run of rename_images ends with an exception that reaches the
\* caller.
C3_NoException == pc # "crashed" /\ exc = "none"

\* C4: a file named seq_<digits>_... is never a candidate and never the
\* source of a move, and every file a run has renamed is still in the
\* directory under the name that run gave it, also after the next run.
C4_Idempotent ==
    /\ \A i \in 1..Len(images) : ~is_already_renamed(images[i])
    /\ \A k \in 1..Len(moves) : ~is_already_renamed(moves[k].old)
    /\ \A r \in renamed : r.name \in DOMAIN dir /\ dir[r.name].id = r.id

\* a second run has moved a file while a file of the first run is there
C4_Witness ==
    /\ runs = 2
    /\ Len(moves) = 1
    /\ \E r \in renamed : r.name # moves[1].new /\ r.name \in DOMAIN dir

\* C5: a run that starts with fewer than 2 candidates makes no move, starts
\* no task and no external command, creates no temporary file, and leaves
\* the directory as it was.
C5_NotEnough ==
    (runs >= 1 /\ Len(images) < 2) =>
        /\ pc = "done"
        /\ moves = <<>>
        /\ dir = dir0
        /\ \A i \in Tasks : task[i] = NoTask /\ tmp[i] = NoFile
        /\ mean_overlap = None

\* a run over a directory with one candidate and other files has returned
C5_Witness ==
    /\ runs >= 1
    /\ pc = "done"
    /\ Cardinality(CandidatesOf(dir0)) = 1
    /\ Cardinality(DOMAIN dir0) >= 2

One == FromInt(1)

\* 0.5, the mean of the scenario with a low overlap
Half == FDivInt(FromInt(1), 2)

\* the selection step has been taken in this run
Selected == \/ pc \in {"rename", "preserve", "crashed"}
            \/ pc = "done" /\ mean_overlap # None

\* the statistics of the scores the parser gives for one artifact per task,
\* collected in the order of the tasks
StatisticsOf(arts) ==
    Statistics(SelectSeq([i \in Tasks |-> parse_pto_file(Readable(arts[i]))],
                         LAMBDA r : r # <<>>))

\* C6, as claimed: a mean below 0.9 (such as 0.5) selects no file, and
\* artifacts exist from which the pipeline computes such a mean.
C6_LowMeanProducible ==
    /\ HighOverlap(images, Half) = <<>>
    /\ pc = "collect" =>
           \E arts \in [Tasks -> Artifacts] :
               /\ StatisticsOf(arts).mean # None
               /\ FLt(StatisticsOf(arts).mean, OVERLAP_THRESHOLD)

\* C6, amended: a mean below 0.9 (such as 0.5) selects no file, but no
\* parsed artifact yields one: every score a task returns and every mean
\* the aggregator returns is at least 1, so a run that has statistics
\* selects every candidate.
C6_MeanAtLeastOne ==
    /\ HighOverlap(images, Half) = <<>>
    /\ \A i \in Tasks : \A k \in 1..Len(task[i].result) :
          FGe(task[i].result[k], One)
    /\ mean_overlap # None => FGe(mean_overlap, One)
    /\ Selected => high_overlap_images = images

\* the statistics of a run in which a score above 1 was parsed
C6_Witness ==
    /\ Selected
    /\ mean_overlap # None
    /\ FLt(One, mean_overlap)
    /\ \E i \in Tasks : task[i].parsed /\ task[i].result # <<>>

\* every external command of this run has failed
AllFailed == \A i \in Tasks : task[i].st = "done" /\ task[i].cmd # "ok"

\* C7: when all three alignment commands fail, the aggregator returns no
\* mean and no median, the run renames nothing and ends without exception.
C7_AllFail ==
    (AllFailed /\ pc \notin {"collect", "aggregate"}) =>
        /\ mean_overlap = None
        /\ median_overlap = None
        /\ moves = <<>>
        /\ dir = dir0
        /\ exc = "none"
        /\ pc \in {"decide", "done"}

\* a run has returned after a non-zero exit and a launch error
C7_Witness ==
    /\ AllFailed
    /\ pc = "done"
    /\ \E i, j \in Tasks : task[i].cmd = "nonzero" /\ task[j].cmd = "launch"

\* C8: the selection is the whole candidate list or empty, and it is the
\* whole list exactly when the global mean is >= 0.9: so for the mean of
\* the run, and so for a mean of 0.5 and a mean of exactly 0.9.
C8_AllOrNone ==
    /\ Selected =>
          IF FGe(mean_overlap, OVERLAP_THRESHOLD)
          THEN high_overlap_images = images
          ELSE high_overlap_images = <<>>
    /\ HighOverlap(images, Half) = <<>>
    /\ HighOverlap(images, OVERLAP_THRESHOLD) = images

\* the two candidates have been selected on a mean above 1
C8_Witness ==
    /\ Selected
    /\ Len(images) = 2
    /\ high_overlap_images = images
    /\ FLt(One, mean_overlap)

\* get_overlap_ratios_parallel has left its loop over the futures
Returned == runs >= 1 /\ handled = Tasks

\* C9, as claimed: on return no temporary file exists, each having been
\* removed exactly once.
C9_NoTempFileLeft ==
    Returned => \A i \in Tasks : ~tmp[i].exists /\ removals[i] = 1

\* C9, amended: os.remove is called exactly once on every temporary file,
\* after its task has completed and whatever the task's outcome; on return
\* a temporary file exists only if that call raised an OSError.
C9_RemovedUnlessError ==
    /\ \A i \in Tasks :
          /\ removals[i] <= 1
          /\ removals[i] = 1 => task[i].st = "done"
          /\ i \in handled => removals[i] = 1
    /\ Returned => \A i \in Tasks : tmp[i].exists => i \in remove_errors

\* returned with the file of a failed command removed, the file of a
\* successful one left behind by a failed removal
C9_Witness ==
    /\ Returned
    /\ \E i, j \in Tasks :
          /\ task[i].cmd = "nonzero" /\ ~tmp[i].exists /\ i \notin remove_errors
          /\ task[j].cmd = "ok" /\ tmp[j].exists /\ j \in remove_errors

\* the orders in which the results of a sequence can be appended
Orders(results) ==
    { [k \in 1..Len(results) |-> results[p[k]]] :
         p \in { q \in [1..Len(results) -> 1..Len(results)] :
                    \A a, b \in 1..Len(results) : a # b => q[a] # q[b] } }

\* C10: the statistics the aggregator returns, and the selection made from
\* them, are the same for every order in which the tasks can complete.
C10_OrderIndependent ==
    pc = "decide" =>
        \A results \in Orders(overlap_results) :
            /\ Statistics(results).mean = mean_overlap
            /\ Statistics(results).median = median_overlap

\* the number of lines of a text that match the control-point pattern
RecordCount(text) == Cardinality({ k \in 1..Len(text) : text[k].cp })

\* the number of distinct type tags of the matching lines of a text
TagCount(text) ==
    Cardinality({ text[k].t : k \in { j \in 1..Len(text) : text[j].cp } })

\* C11: the parser returns the empty sequence for a readable artifact with
\* no control-point record, and the one score N / D for one with N >= 1
\* records over D distinct tags: 1.0 when D = N, and N when D = 1.
C11_ParserReference ==
    \A i \in Tasks :
        (task[i].st = "done" /\ tmp[i].exists /\ tmp[i].readable) =>
            LET N == RecordCount(tmp[i].text)
                D == TagCount(tmp[i].text)
            IN  /\ N = 0 => task[i].result = <<>>
                /\ N >= 1 => task[i].result = <<FDivInt(FromInt(N), D)>>
                /\ (N >= 1 /\ D = N) => task[i].result = <<One>>
                /\ (N >= 1 /\ D = 1) => task[i].result = <<FromInt(N)>>

\* an artifact of three or more records over two tags, mixed with other
\* lines, has been parsed
C11_Witness ==
    /\ task[1].st = "done"
    /\ tmp[1].exists /\ tmp[1].readable
    /\ RecordCount(tmp[1].text) >= 3
    /\ TagCount(tmp[1].text) = 2
    /\ RecordCount(tmp[1].text) < Len(tmp[1].text)
    /\ Len(task[1].result) = 1

\* the number of entries of a sequence that equal r
CountIn(seq, r) == Cardinality({ k \in 1..Len(seq) : seq[k] = r })

\* the collection holds the non-empty results of the tasks whose futures
\* the loop has handled, each as often as tasks have returned it
Collected ==
    /\ Len(overlap_results) =
          Cardinality({ i \in handled : task[i].result # <<>> })
    /\ \A i \in handled :
          task[i].result # <<>> =>
              CountIn(overlap_results, task[i].result) =
                  Cardinality({ j \in handled : task[j].result = task[i].result })

\* C12: the collection is written by one thread at a time: every step that
\* changes it either empties it at the start of a run or is one turn of the
\* main thread's loop, which appends the result of one completed future
\* while no worker changes anything; and after every step, so after the
\* join, it holds each non-empty result of a handled task exactly once.
C12_SafeCollection ==
    [][ /\ overlap_results' # overlap_results =>
              \/ overlap_results' = <<>>
              \/ /\ pc = "collect"
                 /\ task' = task
                 /\ \E i \in Tasks \ handled :
                       /\ task[i].st = "done"
                       /\ handled' = handled \cup {i}
                       /\ overlap_results' =
                             Append(overlap_results, task[i].result)
        /\ Collected' ]_vars

\* after the join the collection holds two equal results, and the third
\* task has returned the empty sequence
C12_Witness ==
    /\ handled = Tasks
    /\ pc = "aggregate"
    /\ Len(overlap_results) = 2
    /\ overlap_results[1] = overlap_results[2]
    /\ \E i \in Tasks : task[i].result = <<>>

\* C13: within one call of the aggregator every task runs its command once:
\* a step of a running task completes it, and a completed task is not
\* started again; a task whose command failed returns the empty sequence
\* without the parser having run, and its step changes no other task; and
\* when the statistics are there, all three tasks have completed and the
\* statistics are those of the non-empty results of the tasks.
C13_FailureAbsorbed ==
    [][ /\ \A i \in Tasks :
              /\ (task[i].st = "running" /\ task'[i] # task[i]) =>
                     task'[i].st = "done"
              /\ (task[i].st = "done" /\ runs' = runs) => task'[i] = task[i]
              /\ (task[i].st = "running" /\ task'[i].st = "done"
                     /\ task'[i].cmd # "ok") =>
                     /\ task'[i].result = <<>>
                     /\ ~task'[i].parsed
                     /\ \A j \in Tasks \ {i} : task'[j] = task[j]
        /\ pc' = "decide" =>
              /\ \A i \in Tasks : task'[i].st = "done"
              /\ handled' = Tasks
              /\ Collected'
              /\ mean_overlap' = Statistics(overlap_results').mean
              /\ median_overlap' = Statistics(overlap_results').median ]_vars

\* the statistics of a call in which one command exited non-zero, one
\* failed to launch and the third left an artifact with a score
C13_Witness ==
    /\ pc = "decide"
    /\ \E i, j, k \in Tasks :
          /\ task[i].cmd = "nonzero"
          /\ task[j].cmd = "launch"
          /\ task[k].cmd = "ok"
          /\ task[k].result # <<>>
          /\ overlap_results = <<task[k].result>>
          /\ mean_overlap = task[k].result[1]

\* every worker task has completed and its future has been handled
AllCollected == \A i \in Tasks : task[i].st = "done" /\ i \in handled

\* C14: wherever the statistics are being or have been computed, a mean is
\* there, or a file has been moved, all three worker tasks have completed
\* and their results have been collected; while a worker is running there
\* is no mean and no move.
C14_AfterJoin ==
    /\ (\/ pc \in {"aggregate", "decide", "rename", "preserve", "crashed"}
        \/ mean_overlap # None
        \/ median_overlap # None
        \/ moves # <<>>) => AllCollected
    /\ (\E i \in Tasks : task[i].st = "running") =>
           /\ mean_overlap = None
           /\ moves = <<>>
           /\ dir = dir0

\* a file has been moved on the statistics of a call in which a command
\* had failed
C14_Witness ==
    /\ Len(moves) = 1
    /\ mean_overlap # None
    /\ AllCollected
    /\ \E i \in Tasks : task[i].cmd # "ok"

\* C15: the k-th move of a run takes the k-th candidate of the sorted list
\* and gives it the name seq_<k, 3 digits>_<original name>; and whenever
\* the loop is not in the middle of a visit, the counter is one more than
\* the number of candidates visited, each of which has been moved.
C15_CounterNaming ==
    /\ \A k \in 1..Len(moves) :
          /\ moves[k].old = images[k]
          /\ moves[k].new = NewName(k, images[k])
    /\ (Selected /\ pc # "preserve") => counter = Len(moves) + 1

\* C16: an artifact never has more distinct tags than records, every score
\* the parser makes of an artifact and every score collected is >= 1, and
\* 0.9 < 1; so a mean and a median that the aggregator returns are >= 1 and
\* reach the threshold, and a run that has taken the selection step has
\* selected every one of its candidates, never none.
C16_ThresholdNeverRejects ==
    /\ FLt(OVERLAP_THRESHOLD, One)
    /\ \A a \in Artifacts :
          /\ TagCount(a) <= RecordCount(a)
          /\ \A k \in 1..Len(parse_pto_file(Readable(a))) :
                FGe(parse_pto_file(Readable(a))[k], One)
    /\ \A k \in 1..Len(Flatten(overlap_results)) :
          FGe(Flatten(overlap_results)[k], One)
    /\ mean_overlap # None =>
          /\ FGe(mean_overlap, One)
          /\ FGe(mean_overlap, OVERLAP_THRESHOLD)
          /\ median_overlap # None
          /\ FGe(median_overlap, One)
    /\ Selected =>
          /\ high_overlap_images = images
          /\ high_overlap_images # <<>>

\* every candidate has been selected on a mean of exactly 1.0, the least
\* the aggregator can return
C16_Witness ==
    /\ Selected
    /\ mean_overlap = One
    /\ Len(overlap_results) >= 2
    /\ high_overlap_images = images
    /\ Len(images) = 2

\* C17: a run overwrites no entry of the directory: at every point of a
\* run the directory has as many files as when the run started, and every
\* file that was there at the start is still there under some name.
C17_NoOverwrite ==
    /\ Cardinality(DOMAIN dir) = Cardinality(DOMAIN dir0)
    /\ \A n \in DOMAIN dir0 : \E m \in DOMAIN dir : dir[m].id = dir0[n].id

\* C18: when the modification time is about to be read, the file is under
\* its new name and its old path is gone; so the read fails: a run that has
\* moved a file and is past the read has ended with FileNotFoundError, and
\* only such a run has; and no run makes more than one move.
C18_ReadAfterMove ==
    /\ pc = "preserve" =>
          /\ moves # <<>>
          /\ moves[Len(moves)].old = high_overlap_images[counter]
          /\ moves[Len(moves)].old \notin DOMAIN dir
          /\ moves[Len(moves)].new \in DOMAIN dir
    /\ (moves # <<>> /\ pc # "preserve") =>
          (pc = "crashed" /\ exc = "FileNotFoundError")
    /\ pc = "crashed" => moves # <<>>
    /\ Len(moves) <= 1

\* a run over three candidates has ended on the failed read after its
\* first move
C18_Witness ==
    /\ pc = "crashed"
    /\ exc = "FileNotFoundError"
    /\ Len(high_overlap_images) = 3
    /\ Len(moves) = 1
    /\ moves[1].old = images[1]

====
